---- MODULE Spec2Model ----
(***************************************************************************)
(* A model of botzen's two facades:                                        *)
(*   botzen/automation/web/core.py  : Web (a Playwright browser session)   *)
(*   botzen/automation/io/core.py   : IOClick, IOPixel, IOImage            *)
(* The facades share no state, so a behaviour drives one object, chosen    *)
(* in Init (client).  Calls into Playwright, pyautogui and time are the    *)
(* environment: their outcomes (an element count, a timeout, an error, the *)
(* image being on screen, how long a call took) are chosen with \E.        *)
(***************************************************************************)
EXTENDS Integers, Sequences, FiniteSets, TLC

VARIABLES
    client,         \* which object the client program drives
    \* ---- Web ----
    w_pc,           \* position of `with Web(url) as w: <body>`
    open,           \* session resources currently held
    acq,            \* resources in the order start() acquired them
    rel,            \* release calls (page.close, ..., playwright.stop) in call order
    closeCalls,     \* number of calls of Web.close
    lastClose,      \* the release calls made by the latest Web.close
    w_exc,          \* exception propagating out of the scope ("none" if none)
    nOps,           \* operations the body has run
    webCall,        \* the latest Web operation and how it ended
    \* ---- IOImage ----
    im_pc,          \* "config", "polling" (inside run's loop) or "done"
    wait_for,       \* self.wait_for
    timeout,        \* self.timeout, in poll intervals; -1: none
    tolerance,      \* self.tolerance
    place_mouse,    \* self.place_mouse
    now,            \* the clock, time.time(), in poll intervals
    start,          \* run's local `start`
    queries,        \* calls of pg.locateOnScreen so far
    lastQuery,      \* arguments of the latest pg.locateOnScreen call
    moves,          \* calls of pg.moveTo so far
    mouse,          \* the pointer's position
    poll,           \* the loop's progress: last sleep, last query, elapsed time read
    imCall,         \* the latest IOImage call that returned, and its result
    \* ---- IOClick ----
    clicks,         \* self.clicks
    click_at,       \* (self.x, self.y); <<>> for (None, None)
    button,         \* self.button
    interval_wait,  \* self.interval_wait
    events,         \* what run did: its sleeps and click events, in order
    clickCall,      \* the latest IOClick call and how it ended
    \* ---- IOPixel ----
    pixel_at,       \* (self.x, self.y); <<>> for (None, None)
    rgb,            \* self.rgb; <<>> for None
    pixelCall       \* the latest IOPixel call and how it ended

webVars == <<w_pc, open, acq, rel, closeCalls, lastClose, w_exc, nOps, webCall>>

imageVars == <<im_pc, wait_for, timeout, tolerance, place_mouse, now, start,
               queries, lastQuery, moves, mouse, poll, imCall>>

clickVars == <<clicks, click_at, button, interval_wait, events, clickCall>>

pixelVars == <<pixel_at, rgb, pixelCall>>

ioVars == <<imageVars, clickVars, pixelVars>>

vars == <<client, webVars, ioVars>>

----------------------------------------------------------------------------
(* Bounds *)
MaxBodyOps == 2     \* operations in the body of the with statement
MaxAmount == 2      \* largest `amount` passed to Web.click
MaxCount == 1       \* largest Locator.count() the page answers
MaxTimeout == 3     \* largest timeout passed to set_timeout, in poll intervals
MaxTolerance == 1   \* largest tolerance passed to set_tolerance
MaxQueryTime == 2   \* longest a screen query takes, in poll intervals
MaxOversleep == 1   \* longest time.sleep overshoots, in poll intervals
MaxPolls == 3       \* screen queries followed in a run with no timeout
MaxClicks == 3      \* largest count passed to IOClick.repeat
MaxWait == 2        \* largest delay passed to IOClick.wait
MaxCoord == 1       \* largest screen coordinate passed to at()

----------------------------------------------------------------------------
(* Helpers *)
Min(a, b) == IF a <= b THEN a ELSE b

Count(seq, e) == Cardinality({i \in DOMAIN seq : seq[i] = e})

----------------------------------------------------------------------------
(* Web *)

\* By = Literal["xpath", "css", "id", "class", "text"]
By == {"xpath", "css", "id", "class", "text"}

\* what a caller can pass as `by`: the annotation is not enforced at run time
ByInputs == By \cup {"name"}

Selectors == {"login", "//a"}

Resources == {"playwright", "browser", "context", "page"}

\* Web.start, lines 42-45: the order of acquisition; step 5 is page.goto
StartOrder == <<"playwright", "browser", "context", "page">>

\* Web.close, lines 219-222: the order of the release calls
CloseOrder == <<"page", "context", "browser", "playwright">>

NoCall == [op |-> "none", by |-> "none", amount |-> 0, outcome |-> "none",
           value |-> "none", locator |-> <<>>, locators |-> 0, clicked |-> 0,
           env |-> <<>>]

\* Web.start where step failAt raises (failAt = 6: no step raises).
\* The steps before failAt have taken effect when the exception leaves start.
StartAcquired(failAt) == SubSeq(StartOrder, 1, Min(failAt - 1, 4))

StartRaises(failAt) == failAt <= 5

\* Web.close where release call failAt raises (failAt = 5: none raises):
\* the calls up to and including failAt are made, those before it succeed.
CloseInvoked(failAt) == SubSeq(CloseOrder, 1, Min(failAt, 4))

CloseReleased(failAt) == {CloseOrder[i] : i \in 1 .. Min(failAt - 1, 4)}

CloseRaises(failAt) == failAt <= 4

\* Web.find with a default case that treats the selector as css
FindFallthrough(selector, by) ==
    CASE by = "id" -> [raised |-> FALSE, locator |-> <<"#", selector>>]
      [] by = "class" -> [raised |-> FALSE, locator |-> <<".", selector>>]
      [] by = "xpath" -> [raised |-> FALSE, locator |-> <<"xpath=", selector>>]
      [] by = "text" -> [raised |-> FALSE, locator |-> <<"text=", selector>>]
      [] OTHER -> [raised |-> FALSE, locator |-> <<"", selector>>]

\* Web.find: the locator expression handed to page.locator, or ValueError
Find(selector, by) ==
    CASE by = "css" -> [raised |-> FALSE, locator |-> <<"", selector>>]
      [] by = "id" -> [raised |-> FALSE, locator |-> <<"#", selector>>]
      [] by = "class" -> [raised |-> FALSE, locator |-> <<".", selector>>]
      [] by = "xpath" -> [raised |-> FALSE, locator |-> <<"xpath=", selector>>]
      [] by = "text" -> [raised |-> FALSE, locator |-> <<"text=", selector>>]
      [] OTHER -> [raised |-> TRUE, locator |-> <<>>]

WebInit ==
    /\ w_pc = "new"
    /\ open = {}
    /\ acq = <<>>
    /\ rel = <<>>
    /\ closeCalls = 0
    /\ lastClose = <<>>
    /\ w_exc = "none"
    /\ nOps = 0
    /\ webCall = NoCall

\* __enter__: start(); an exception leaves the with statement without __exit__
Enter ==
    /\ client = "Web"
    /\ w_pc = "new"
    /\ \E failAt \in 1 .. 6 :
        /\ acq' = acq \o StartAcquired(failAt)
        /\ open' = open \cup {StartAcquired(failAt)[i] : i \in DOMAIN StartAcquired(failAt)}
        /\ w_pc' = IF StartRaises(failAt) THEN "done" ELSE "body"
        /\ w_exc' = IF StartRaises(failAt) THEN "Error" ELSE "none"
    /\ UNCHANGED <<client, ioVars, rel, closeCalls, lastClose, nOps, webCall>>

\* a body operation ended: an exception leaves the body, a return stays in it
BodyStep(call) ==
    /\ webCall' = call
    /\ nOps' = nOps + 1
    /\ w_pc' = IF call.outcome = "raise" THEN "exit" ELSE "body"
    /\ w_exc' = IF call.outcome = "raise" THEN call.value ELSE "none"

\* the body uses the page only while it is open (not after its own close())
InBody ==
    /\ client = "Web"
    /\ w_pc = "body"
    /\ nOps < MaxBodyOps
    /\ "page" \in open

\* a direct call of Web.find
FindCall(selector, by) ==
    LET f == Find(selector, by) IN
    [op |-> "find", by |-> by, amount |-> 0,
     outcome |-> IF f.raised THEN "raise" ELSE "return",
     value |-> IF f.raised THEN "ValueError" ELSE "Locator",
     locator |-> f.locator,
     locators |-> IF f.raised THEN 0 ELSE 1, clicked |-> 0, env |-> <<>>]

\* Web.exists: loc.count() > 0 and loc.first.is_visible()
Exists(selector, by, count, visible) ==
    LET f == Find(selector, by) IN
    [op |-> "exists", by |-> by, amount |-> 0,
     outcome |-> IF f.raised THEN "raise" ELSE "return",
     value |-> IF f.raised THEN "ValueError"
               ELSE IF count > 0 /\ visible THEN "True" ELSE "False",
     locator |-> f.locator,
     locators |-> IF f.raised THEN 0 ELSE 1, clicked |-> 0,
     env |-> <<count, visible>>]

\* Web.wait_for: only PlaywrightTimeoutError is caught
WaitFor(selector, by, timedOut) ==
    LET f == Find(selector, by) IN
    [op |-> "wait_for", by |-> by, amount |-> 0,
     outcome |-> IF f.raised THEN "raise" ELSE "return",
     value |-> IF f.raised THEN "ValueError"
               ELSE IF timedOut THEN "False" ELSE "True",
     locator |-> f.locator,
     locators |-> IF f.raised THEN 0 ELSE 1, clicked |-> 0, env |-> <<timedOut>>]

\* Web.click: `for _ in range(amount): self.find(selector, by).click()`;
\* i counts the iterations done, the click of iteration failAt times out
RECURSIVE ClickLoop(_, _, _, _, _)
ClickLoop(selector, by, amount, failAt, i) ==
    IF i >= amount
    THEN [op |-> "click", by |-> by, amount |-> amount, outcome |-> "return",
          value |-> "None", locator |-> <<>>, locators |-> i, clicked |-> i,
          env |-> <<failAt>>]
    ELSE LET f == Find(selector, by) IN
         IF f.raised
         THEN [op |-> "click", by |-> by, amount |-> amount, outcome |-> "raise",
               value |-> "ValueError", locator |-> <<>>, locators |-> i, clicked |-> i,
               env |-> <<failAt>>]
         ELSE IF failAt = i + 1
         THEN [op |-> "click", by |-> by, amount |-> amount, outcome |-> "raise",
               value |-> "TimeoutError", locator |-> f.locator,
               locators |-> i + 1, clicked |-> i, env |-> <<failAt>>]
         ELSE ClickLoop(selector, by, amount, failAt, i + 1)

Click(selector, by, amount, failAt) == ClickLoop(selector, by, amount, failAt, 0)

\* Web.fill: find(...).fill(text); the fill can time out
Fill(selector, by, timedOut) ==
    LET f == Find(selector, by) IN
    [op |-> "fill", by |-> by, amount |-> 0,
     outcome |-> IF f.raised \/ timedOut THEN "raise" ELSE "return",
     value |-> IF f.raised THEN "ValueError"
               ELSE IF timedOut THEN "TimeoutError" ELSE "None",
     locator |-> f.locator,
     locators |-> IF f.raised THEN 0 ELSE 1, clicked |-> 0, env |-> <<timedOut>>]

\* Web.click_and_wait_for_navigation: the click runs inside expect_navigation,
\* whose exit waits for the navigation and can time out
ClickAndWaitForNavigation(selector, by, timedOut) ==
    LET f == Find(selector, by) IN
    [op |-> "click_and_wait_for_navigation", by |-> by, amount |-> 0,
     outcome |-> IF f.raised \/ timedOut THEN "raise" ELSE "return",
     value |-> IF f.raised THEN "ValueError"
               ELSE IF timedOut THEN "TimeoutError" ELSE "None",
     locator |-> f.locator,
     locators |-> IF f.raised THEN 0 ELSE 1,
     clicked |-> IF f.raised THEN 0 ELSE 1, env |-> <<timedOut>>]

\* Web.close as a call record
CloseCall(failAt) ==
    [op |-> "close", by |-> "none", amount |-> 0,
     outcome |-> IF CloseRaises(failAt) THEN "raise" ELSE "return",
     value |-> IF CloseRaises(failAt) THEN "Error" ELSE "None",
     locator |-> <<>>, locators |-> 0, clicked |-> 0, env |-> <<failAt>>]

\* the effect of Web.close on the session
Close(failAt) ==
    /\ rel' = rel \o CloseInvoked(failAt)
    /\ lastClose' = CloseInvoked(failAt)
    /\ open' = open \ CloseReleased(failAt)
    /\ closeCalls' = closeCalls + 1

BodyFind ==
    /\ InBody
    /\ \E selector \in Selectors, by \in ByInputs :
        BodyStep(FindCall(selector, by))
    /\ UNCHANGED <<client, ioVars, open, acq, rel, closeCalls, lastClose>>

BodyExists ==
    /\ InBody
    /\ \E selector \in Selectors, by \in ByInputs, count \in 0 .. MaxCount,
          visible \in BOOLEAN :
        BodyStep(Exists(selector, by, count, visible))
    /\ UNCHANGED <<client, ioVars, open, acq, rel, closeCalls, lastClose>>

BodyWaitFor ==
    /\ InBody
    /\ \E selector \in Selectors, by \in ByInputs, timedOut \in BOOLEAN :
        BodyStep(WaitFor(selector, by, timedOut))
    /\ UNCHANGED <<client, ioVars, open, acq, rel, closeCalls, lastClose>>

BodyClick ==
    /\ InBody
    /\ \E selector \in Selectors, by \in ByInputs, amount \in -1 .. MaxAmount,
          failAt \in 1 .. MaxAmount + 1 :
        BodyStep(Click(selector, by, amount, failAt))
    /\ UNCHANGED <<client, ioVars, open, acq, rel, closeCalls, lastClose>>

BodyFill ==
    /\ InBody
    /\ \E selector \in Selectors, by \in ByInputs, timedOut \in BOOLEAN :
        BodyStep(Fill(selector, by, timedOut))
    /\ UNCHANGED <<client, ioVars, open, acq, rel, closeCalls, lastClose>>

BodyClickAndWaitForNavigation ==
    /\ InBody
    /\ \E selector \in Selectors, by \in ByInputs, timedOut \in BOOLEAN :
        BodyStep(ClickAndWaitForNavigation(selector, by, timedOut))
    /\ UNCHANGED <<client, ioVars, open, acq, rel, closeCalls, lastClose>>

\* the body calls close() itself
BodyClose ==
    /\ client = "Web"
    /\ w_pc = "body"
    /\ nOps < MaxBodyOps
    /\ \E failAt \in 1 .. 5 :
        /\ Close(failAt)
        /\ BodyStep(CloseCall(failAt))
    /\ UNCHANGED <<client, ioVars, acq>>

\* code of the body other than a Web call raises
BodyRaise ==
    /\ client = "Web"
    /\ w_pc = "body"
    /\ w_pc' = "exit"
    /\ w_exc' = "Exception"
    /\ UNCHANGED <<client, ioVars, open, acq, rel, closeCalls, lastClose, nOps, webCall>>

\* the body completes
BodyEnd ==
    /\ client = "Web"
    /\ w_pc = "body"
    /\ w_pc' = "exit"
    /\ UNCHANGED <<client, ioVars, open, acq, rel, closeCalls, lastClose, w_exc, nOps, webCall>>

\* __exit__: close(); returns None, so an exception of the body goes on
Exit ==
    /\ client = "Web"
    /\ w_pc = "exit"
    /\ \E failAt \in 1 .. 5 :
        /\ Close(failAt)
        /\ webCall' = CloseCall(failAt)
        /\ w_exc' = IF CloseRaises(failAt) THEN "Error" ELSE w_exc
    /\ w_pc' = "done"
    /\ UNCHANGED <<client, ioVars, acq, nOps>>

NextWeb ==
    \/ Enter
    \/ BodyFind
    \/ BodyExists
    \/ BodyWaitFor
    \/ BodyClick
    \/ BodyFill
    \/ BodyClickAndWaitForNavigation
    \/ BodyClose
    \/ BodyRaise
    \/ BodyEnd
    \/ Exit

----------------------------------------------------------------------------
(* IOImage *)

\* time.sleep(0.01) / time.sleep(1 / 100): the unit of the clock
PollInterval == 1

ImagePath == "ref.png"

\* the regions pg.locateOnScreen can answer: (left, top, width, height)
Boxes == {<<0, 0, 2, 2>>, <<4, 2, 3, 5>>}

\* None, in the place of a Box
NoBox == <<>>

\* pg.center(box)
Center(box) == <<box[1] + box[3] \div 2, box[2] + box[4] \div 2>>

SleepTimes == PollInterval .. PollInterval + MaxOversleep

QueryTimes == 0 .. MaxQueryTime

\* the call pg.locateOnScreen(self.path) of is_existing
ScreenQuery(path, tol) == [args |-> <<path>>, kwargs |-> {}, configured |-> tol]

\* is_existing without the except clause's result: a missing image still
\* answers found
IsExistingResultAlwaysFound(present, box) ==
    IF present THEN <<TRUE, box>> ELSE <<TRUE, NoBox>>

\* is_existing's result: ImageNotFoundException becomes (False, None)
IsExistingResult(present, box) ==
    IF present THEN <<TRUE, box>> ELSE <<FALSE, NoBox>>

\* `if self.place_mouse_over:` in run's loops tests the bound method
\* place_mouse_over, not the flag self.place_mouse: a method object is true
PlaceMouseOverTest(flag) == TRUE

\* `if exists and self.place_mouse:` in run's non-polling branch
PlaceMouseTest(flag) == flag

\* the time-up test with > for >=: a tie polls once more
TimeIsUpStrict(elapsed, t) == elapsed > t

\* the time-up test one interval early
TimeIsUpEarly(elapsed, t) == elapsed + PollInterval >= t

\* `time.time() - start >= self.timeout`
TimeIsUp(elapsed, t) == elapsed >= t

NoPoll == [sleep |-> 0, query |-> 0, elapsed |-> 0, queried |-> 0, checks |-> 0]

NoImCall == [op |-> "none", polled |-> FALSE, timed |-> FALSE, found |-> FALSE,
             box |-> NoBox, queried |-> 0, moved |-> FALSE, elapsed |-> 0,
             sleep |-> 0, query |-> 0, checks |-> 0,
             present |-> FALSE, shown |-> NoBox]

ImageInit ==
    /\ im_pc = "config"
    /\ wait_for = FALSE
    /\ timeout = -1
    /\ tolerance = 0
    /\ place_mouse = FALSE
    /\ now = 0
    /\ start = 0
    /\ queries = 0
    /\ lastQuery = ScreenQuery("", 0)
    /\ moves = 0
    /\ mouse = <<0, 0>>
    /\ poll = NoPoll
    /\ imCall = NoImCall

Configuring ==
    /\ client = "IOImage"
    /\ im_pc = "config"

CheckFor ==
    /\ Configuring
    /\ wait_for' = FALSE
    /\ UNCHANGED <<client, webVars, clickVars, pixelVars, im_pc, timeout, tolerance, place_mouse, now, start,
                   queries, lastQuery, moves, mouse, poll, imCall>>

SetTimeout ==
    /\ Configuring
    /\ \E t \in -2 .. MaxTimeout : timeout' = t
    /\ UNCHANGED <<client, webVars, clickVars, pixelVars, im_pc, wait_for, tolerance, place_mouse, now, start,
                   queries, lastQuery, moves, mouse, poll, imCall>>

PlaceMouseOver ==
    /\ Configuring
    /\ place_mouse' = TRUE
    /\ UNCHANGED <<client, webVars, clickVars, pixelVars, im_pc, wait_for, timeout, tolerance, now, start,
                   queries, lastQuery, moves, mouse, poll, imCall>>

SetTolerance ==
    /\ Configuring
    /\ \E t \in 0 .. MaxTolerance : tolerance' = t
    /\ UNCHANGED <<client, webVars, clickVars, pixelVars, im_pc, wait_for, timeout, place_mouse, now, start,
                   queries, lastQuery, moves, mouse, poll, imCall>>

WaitForPresence ==
    /\ Configuring
    /\ wait_for' = TRUE
    /\ UNCHANGED <<client, webVars, clickVars, pixelVars, im_pc, timeout, tolerance, place_mouse, now, start,
                   queries, lastQuery, moves, mouse, poll, imCall>>

\* one screen query taking d: the clock, the count and the arguments
Query(t, d) ==
    /\ now' = t + d
    /\ queries' = queries + 1
    /\ lastQuery' = ScreenQuery(ImagePath, tolerance)

\* pg.moveTo(pg.center(box)) when `moving`
MoveIf(moving, box) ==
    /\ moves' = IF moving THEN moves + 1 ELSE moves
    /\ mouse' = IF moving THEN Center(box) ELSE mouse

\* a direct call of is_existing
IsExisting ==
    /\ Configuring
    /\ imCall.op = "none"
    /\ \E present \in BOOLEAN, box \in Boxes, d \in QueryTimes :
        LET r == IsExistingResult(present, box) IN
        /\ Query(now, d)
        /\ imCall' = [NoImCall EXCEPT !.op = "is_existing", !.found = r[1],
                      !.box = r[2], !.queried = 1, !.elapsed = d, !.query = d,
                      !.present = present, !.shown = box]
    /\ UNCHANGED <<client, webVars, clickVars, pixelVars, im_pc, wait_for, timeout, tolerance, place_mouse,
                   start, moves, mouse, poll>>

\* run with wait_for unset: one query
RunOnce ==
    /\ Configuring
    /\ ~wait_for
    /\ \E present \in BOOLEAN, box \in Boxes, d \in QueryTimes :
        LET r == IsExistingResult(present, box)
            moving == r[1] /\ PlaceMouseTest(place_mouse) IN
        /\ Query(now, d)
        /\ MoveIf(moving, r[2])
        /\ imCall' = [NoImCall EXCEPT !.op = "run", !.found = r[1], !.box = r[2],
                      !.queried = 1, !.moved = moving, !.elapsed = d, !.query = d,
                      !.present = present, !.shown = box]
    /\ im_pc' = "done"
    /\ UNCHANGED <<client, webVars, clickVars, pixelVars, wait_for, timeout, tolerance, place_mouse, start, poll>>

\* run with wait_for set enters a loop; the timeout branch reads the clock
RunPolling ==
    /\ Configuring
    /\ wait_for
    /\ im_pc' = "polling"
    /\ start' = now
    /\ poll' = NoPoll
    /\ UNCHANGED <<client, webVars, clickVars, pixelVars, wait_for, timeout, tolerance, place_mouse, now,
                   queries, lastQuery, moves, mouse, imCall>>

\* one iteration of the loop without timeout: query, return or sleep
PollForever ==
    /\ client = "IOImage"
    /\ im_pc = "polling"
    /\ timeout = -1
    /\ poll.queried < MaxPolls
    /\ \E present \in BOOLEAN, box \in Boxes, d \in QueryTimes, s \in SleepTimes :
        LET r == IsExistingResult(present, box)
            moving == r[1] /\ PlaceMouseOverTest(place_mouse) IN
        /\ queries' = queries + 1
        /\ lastQuery' = ScreenQuery(ImagePath, tolerance)
        /\ MoveIf(moving, r[2])
        /\ IF r[1]
           THEN /\ now' = now + d
                /\ im_pc' = "done"
                /\ poll' = [poll EXCEPT !.query = d, !.queried = @ + 1]
                /\ imCall' = [NoImCall EXCEPT !.op = "run", !.polled = TRUE,
                              !.found = TRUE, !.box = r[2],
                              !.queried = poll.queried + 1, !.moved = moving,
                              !.elapsed = now + d - start, !.sleep = poll.sleep,
                              !.query = d, !.present = TRUE, !.shown = box]
           ELSE /\ now' = now + d + s
                /\ im_pc' = "polling"
                /\ poll' = [poll EXCEPT !.query = d, !.sleep = s, !.queried = @ + 1]
                /\ imCall' = imCall
    /\ UNCHANGED <<client, webVars, clickVars, pixelVars, wait_for, timeout, tolerance, place_mouse, start>>

\* one iteration of the loop with a timeout: sleep, read the clock, return
\* not-found when the time is up, else query and return or go on
PollTimeout ==
    /\ client = "IOImage"
    /\ im_pc = "polling"
    /\ timeout # -1
    /\ \E present \in BOOLEAN, box \in Boxes, d \in QueryTimes, s \in SleepTimes :
        LET elapsed == now + s - start
            r == IsExistingResult(present, box)
            moving == r[1] /\ PlaceMouseOverTest(place_mouse) IN
        IF TimeIsUp(elapsed, timeout)
        THEN /\ now' = now + s
             /\ im_pc' = "done"
             /\ poll' = [poll EXCEPT !.sleep = s, !.elapsed = elapsed, !.checks = @ + 1]
             /\ imCall' = [NoImCall EXCEPT !.op = "run", !.polled = TRUE, !.timed = TRUE,
                           !.queried = poll.queried, !.elapsed = elapsed,
                           !.sleep = s, !.query = poll.query,
                           !.checks = poll.checks + 1]
             /\ UNCHANGED <<queries, lastQuery, moves, mouse>>
        ELSE /\ Query(now + s, d)
             /\ MoveIf(moving, r[2])
             /\ poll' = [sleep |-> s, query |-> d, elapsed |-> elapsed,
                         queried |-> poll.queried + 1, checks |-> poll.checks + 1]
             /\ IF r[1]
                THEN /\ im_pc' = "done"
                     /\ imCall' = [NoImCall EXCEPT !.op = "run", !.polled = TRUE,
                                   !.timed = TRUE, !.found = TRUE, !.box = r[2],
                                   !.queried = poll.queried + 1, !.moved = moving,
                                   !.elapsed = elapsed + d, !.sleep = s, !.query = d,
                                   !.checks = poll.checks + 1, !.present = TRUE,
                                   !.shown = box]
                ELSE /\ im_pc' = "polling"
                     /\ imCall' = imCall
    /\ UNCHANGED <<client, webVars, clickVars, pixelVars, wait_for, timeout, tolerance, place_mouse, start>>

NextImage ==
    \/ CheckFor
    \/ SetTimeout
    \/ PlaceMouseOver
    \/ SetTolerance
    \/ WaitForPresence
    \/ IsExisting
    \/ RunOnce
    \/ RunPolling
    \/ PollForever
    \/ PollTimeout

----------------------------------------------------------------------------
(* IOClick *)

NoClickCall == [op |-> "none", arg |-> 0, outcome |-> "none", value |-> "none"]

ClickInit ==
    /\ clicks = 1
    /\ click_at = <<>>
    /\ button = "primary"
    /\ interval_wait = 0
    /\ events = <<>>
    /\ clickCall = NoClickCall

ClickEvent(t, b, xy) == [kind |-> "click", at |-> t, dur |-> 0, button |-> b, xy |-> xy]

SleepEvent(t, w) == [kind |-> "sleep", at |-> t, dur |-> w, button |-> "none", xy |-> <<>>]

\* pg.click(x, y, button, clicks): pyautogui clicks once per `for i in range(clicks)`
RECURSIVE PgClick(_, _, _, _)
PgClick(n, t, b, xy) ==
    IF n <= 0 THEN <<>> ELSE <<ClickEvent(t, b, xy)>> \o PgClick(n - 1, t, b, xy)

\* the loop of IOClick.run: `for _ in range(self.clicks): time.sleep(w); pg.click(...)`;
\* time.sleep raises ValueError for a negative length
RECURSIVE RunLoop(_, _, _, _, _, _, _)
RunLoop(n, w, b, xy, i, t, log) ==
    IF i >= n
    THEN [log |-> log, raised |-> FALSE]
    ELSE IF w < 0
    THEN [log |-> log, raised |-> TRUE]
    ELSE RunLoop(n, w, b, xy, i + 1, t + w,
                 log \o <<SleepEvent(t, w)>> \o PgClick(1, t + w, b, xy))

\* IOClick.run that never takes the waiting branch
RunClicksNoWait(n, w, b, xy) == [log |-> PgClick(n, 0, b, xy), raised |-> FALSE]

\* IOClick.run
RunClicks(n, w, b, xy) ==
    IF w = 0
    THEN [log |-> PgClick(n, 0, b, xy), raised |-> FALSE]
    ELSE RunLoop(n, w, b, xy, 0, 0, <<>>)

\* IOClick.repeat: `assert clicks != 0`
RepeatAccepts(n) == n # 0

Clicking ==
    /\ client = "IOClick"
    /\ clickCall.op # "run"

ClickAt ==
    /\ Clicking
    /\ \E x \in 0 .. MaxCoord, y \in 0 .. MaxCoord : click_at' = <<x, y>>
    /\ clickCall' = [NoClickCall EXCEPT !.op = "at", !.outcome = "return"]
    /\ UNCHANGED <<client, webVars, imageVars, pixelVars, clicks, button, interval_wait,
                   events>>

WithButton ==
    /\ Clicking
    /\ \E b \in {"left", "primary", "right"} :
        /\ button' = b
        /\ clickCall' = [NoClickCall EXCEPT !.op = "with_button", !.outcome = "return"]
    /\ UNCHANGED <<client, webVars, imageVars, pixelVars, clicks, click_at, interval_wait,
                   events>>

Wait ==
    /\ Clicking
    /\ \E t \in -1 .. MaxWait :
        /\ interval_wait' = t
        /\ clickCall' = [NoClickCall EXCEPT !.op = "wait", !.arg = t, !.outcome = "return"]
    /\ UNCHANGED <<client, webVars, imageVars, pixelVars, clicks, click_at, button, events>>

Repeat ==
    /\ Clicking
    /\ \E n \in -2 .. MaxClicks :
        IF RepeatAccepts(n)
        THEN /\ clicks' = n
             /\ clickCall' = [NoClickCall EXCEPT !.op = "repeat", !.arg = n,
                              !.outcome = "return"]
        ELSE /\ clicks' = clicks
             /\ clickCall' = [NoClickCall EXCEPT !.op = "repeat", !.arg = n,
                              !.outcome = "raise", !.value = "AssertionError"]
    /\ UNCHANGED <<client, webVars, imageVars, pixelVars, click_at, button, interval_wait,
                   events>>

RunClick ==
    /\ Clicking
    /\ LET r == RunClicks(clicks, interval_wait, button, click_at) IN
        /\ events' = r.log
        /\ clickCall' = [NoClickCall EXCEPT !.op = "run",
                         !.outcome = IF r.raised THEN "raise" ELSE "return",
                         !.value = IF r.raised THEN "ValueError" ELSE "none"]
    /\ UNCHANGED <<client, webVars, imageVars, pixelVars, clicks, click_at, button,
                   interval_wait>>

NextClick ==
    \/ ClickAt
    \/ WithButton
    \/ Wait
    \/ Repeat
    \/ RunClick

----------------------------------------------------------------------------
(* IOPixel *)

NoPixelCall == [op |-> "none", args |-> <<>>, outcome |-> "none", value |-> "none"]

\* the channel values tried: both ends of [0, 255] and the values just outside
ChannelInputs == {-1, 0, 255, 256}

PixelInit ==
    /\ pixel_at = <<>>
    /\ rgb = <<>>
    /\ pixelCall = NoPixelCall

\* set_rgb without the assertion on blue
SetRgbCheckNoBlue(r, g, b) ==
    IF ~(0 <= r /\ r <= 255) THEN "Invalid red value"
    ELSE IF ~(0 <= g /\ g <= 255) THEN "Invalid green value"
    ELSE "none"

\* the three assertions of set_rgb, in order: the message of the first that
\* fails, "none" if all hold
SetRgbCheck(r, g, b) ==
    IF ~(0 <= r /\ r <= 255) THEN "Invalid red value"
    ELSE IF ~(0 <= g /\ g <= 255) THEN "Invalid green value"
    ELSE IF ~(0 <= b /\ b <= 255) THEN "Invalid blue value"
    ELSE "none"

PixelAt ==
    /\ client = "IOPixel"
    /\ \E x \in 0 .. MaxCoord, y \in 0 .. MaxCoord :
        /\ pixel_at' = <<x, y>>
        /\ pixelCall' = [NoPixelCall EXCEPT !.op = "at", !.args = <<x, y>>,
                         !.outcome = "return"]
    /\ UNCHANGED <<client, webVars, imageVars, clickVars, rgb>>

SetRgb ==
    /\ client = "IOPixel"
    /\ \E r \in ChannelInputs, g \in ChannelInputs, b \in ChannelInputs :
        IF SetRgbCheck(r, g, b) = "none"
        THEN /\ rgb' = <<r, g, b>>
             /\ pixelCall' = [NoPixelCall EXCEPT !.op = "set_rgb", !.args = <<r, g, b>>,
                              !.outcome = "return"]
        ELSE /\ rgb' = rgb
             /\ pixelCall' = [NoPixelCall EXCEPT !.op = "set_rgb", !.args = <<r, g, b>>,
                              !.outcome = "raise", !.value = SetRgbCheck(r, g, b)]
    /\ UNCHANGED <<client, webVars, imageVars, clickVars, pixel_at>>

NextPixel ==
    \/ PixelAt
    \/ SetRgb

----------------------------------------------------------------------------
Init ==
    /\ client \in {"Web", "IOImage", "IOClick", "IOPixel"}
    /\ WebInit
    /\ ImageInit
    /\ ClickInit
    /\ PixelInit

Next ==
    \/ NextWeb
    \/ NextImage
    \/ NextClick
    \/ NextPixel

Spec == Init /\ [][Next]_vars

----------------------------------------------------------------------------
(* Properties *)

Reverse(seq) == [i \in 1 .. Len(seq) |-> seq[Len(seq) + 1 - i]]

FindOps == {"find", "exists", "wait_for", "click", "fill",
            "click_and_wait_for_navigation"}

ClickIndexes(log) == {i \in DOMAIN log : log[i].kind = "click"}

NumClicks(log) == Cardinality(ClickIndexes(log))

\* the tolerance a screen query searches with: its tolerance argument, or
\* the library's exact match (0) when it passes none
QueryTolerance(q) ==
    IF \E kv \in q.kwargs : kv[1] = "tolerance"
    THEN (CHOOSE kv \in q.kwargs : kv[1] = "tolerance")[2]
    ELSE 0

\* a run with wait_for and a timeout t > 0 returned not-found
TimedOutRun ==
    /\ client = "IOImage"
    /\ imCall.op = "run"
    /\ imCall.timed
    /\ ~imCall.found
    /\ timeout > 0

\* C1: once the with statement has been left, having acquired anything, each
\* of page.close, context.close, browser.close and playwright.stop has been
\* called exactly once, whatever the exit path.
C1_TeardownExactlyOnce ==
    (client = "Web" /\ w_pc = "done" /\ acq # <<>>)
        => \A r \in Resources : Count(rel, r) = 1

\* C2: a call of Web.close makes the release calls of everything start
\* acquired, in the reverse of the order of acquisition, also when one of the
\* calls fails.
C2_ReleaseAllInReverse ==
    (client = "Web" /\ closeCalls > 0) => lastClose = Reverse(acq)

\* C3 as stated: with a timeout t > 0, run returns not-found no earlier than t
\* and no later than t plus one poll interval.
C3_NotFoundWithinOneInterval ==
    TimedOutRun =>
        /\ imCall.elapsed >= timeout
        /\ imCall.elapsed <= timeout + PollInterval

\* C3 amended: with a timeout t > 0, run returns not-found no earlier than t
\* and earlier than t plus the time its last screen query took (0 if it made
\* none) plus the time its last sleep took.
C3_NotFoundWindow ==
    TimedOutRun =>
        /\ imCall.elapsed >= timeout
        /\ imCall.elapsed < timeout + imCall.query + imCall.sleep

\* a not-found return later than t plus one poll interval, after a query
C3_Witness ==
    /\ TimedOutRun
    /\ imCall.queried >= 1
    /\ imCall.elapsed > timeout + PollInterval

\* A step of the timeout loop: an elapsed time read after a sleep that is at
\* least the timeout (a tie included) ends the call with (False, None) and no
\* further screen query; with a timeout of 0 that happens after the first sleep.
C4_TimeUpStep ==
    (client = "IOImage" /\ im_pc = "polling" /\ timeout # -1) =>
        /\ (poll'.checks = poll.checks + 1 /\ poll'.elapsed >= timeout) =>
              /\ im_pc' = "done"
              /\ imCall'.op = "run"
              /\ ~imCall'.found
              /\ imCall'.box = NoBox
              /\ queries' = queries
        /\ (poll'.checks = poll.checks + 1 /\ timeout = 0) =>
              /\ im_pc' = "done"
              /\ ~imCall'.found
              /\ imCall'.queried = 0
              /\ imCall'.elapsed = imCall'.sleep

\* C4: every step of run's timeout loop that reads an elapsed time >= the
\* timeout (a tie included) returns (False, None) without querying the screen.
C4_TieIsNotFound == [][C4_TimeUpStep]_vars

\* a tie after at least one query: not-found
C4_Witness ==
    /\ TimedOutRun
    /\ im_pc = "done"
    /\ imCall.queried >= 1
    /\ imCall.elapsed = timeout

\* C5: a polling run that found the image moved the pointer exactly if
\* place_mouse_over() had been called, and returned (True, box); a polling
\* run without timeout returns only found.
C5_MouseMovedIffConfigured ==
    (client = "IOImage" /\ imCall.op = "run" /\ imCall.polled) =>
        /\ imCall.found =>
              /\ imCall.moved <=> place_mouse
              /\ imCall.box \in Boxes
        /\ ~imCall.timed => imCall.found

\* A call of set_rgb: with a channel outside [0, 255] fails its assertion and leaves
\* rgb, x and y as they were; with all channels inside it stores (r, g, b).
C6_SetRgbStep ==
    (client = "IOPixel" /\ pixelCall'.op = "set_rgb") =>
        LET a == pixelCall'.args IN
        IF \E i \in 1 .. 3 : a[i] < 0 \/ a[i] > 255
        THEN /\ pixelCall'.outcome = "raise"
             /\ rgb' = rgb
             /\ pixel_at' = pixel_at
        ELSE /\ pixelCall'.outcome = "return"
             /\ rgb' = a

\* C6: every call of set_rgb fails and changes nothing when a channel is
\* outside [0, 255], and stores (r, g, b) otherwise.
C6_SetRgb == [][C6_SetRgbStep]_vars

\* a failed set_rgb on an instance that holds a colour and a position
C6_Witness ==
    /\ pixelCall.op = "set_rgb"
    /\ pixelCall.outcome = "raise"
    /\ rgb # <<>>
    /\ pixel_at # <<>>

\* C7 as stated: with a strategy outside the five, find and every operation
\* that uses it raise ValueError without a call of page.locator.
C7_UnsupportedAlwaysRaises ==
    (client = "Web" /\ webCall.op \in FindOps /\ webCall.by \notin By) =>
        /\ webCall.outcome = "raise"
        /\ webCall.value = "ValueError"
        /\ webCall.locators = 0

\* C7 amended: with a strategy outside the five, find, exists, wait_for,
\* fill, click_and_wait_for_navigation, and click with amount >= 1, raise
\* ValueError without a call of page.locator; click with amount <= 0 never
\* calls find and returns; find with one of the five returns a locator.
C7_UnsupportedRaisesWhenLookedUp ==
    (client = "Web" /\ webCall.op \in FindOps) =>
        /\ (webCall.by \notin By /\ (webCall.op = "click" => webCall.amount >= 1)) =>
              /\ webCall.outcome = "raise"
              /\ webCall.value = "ValueError"
              /\ webCall.locators = 0
        /\ (webCall.by \notin By /\ webCall.op = "click" /\ webCall.amount <= 0) =>
              /\ webCall.outcome = "return"
              /\ webCall.locators = 0
        /\ (webCall.by \in By /\ webCall.op = "find") =>
              /\ webCall.outcome = "return"
              /\ Len(webCall.locator) = 2
              /\ webCall.locators = 1

\* click with amount >= 1 and an unsupported strategy raised
C7_Witness ==
    /\ webCall.op = "click"
    /\ webCall.by \notin By
    /\ webCall.amount >= 1
    /\ webCall.outcome = "raise"

\* C8 as stated: run performs exactly as many click events as the count
\* repeat accepted (any count but 0), here for every wait w >= 0.
C8_ExactlyNClicks ==
    (client = "IOClick" /\ clickCall.op = "run" /\ interval_wait >= 0)
        => NumClicks(events) = clicks

\* what run did, for a count n >= 1 and a wait w >= 0
C8_RunDone ==
    (client = "IOClick" /\ clickCall.op = "run" /\ clicks >= 1 /\ interval_wait >= 0) =>
        /\ clickCall.outcome = "return"
        /\ NumClicks(events) = clicks
        /\ interval_wait > 0 =>
              /\ \A i \in ClickIndexes(events) :
                    /\ i > 1
                    /\ events[i - 1].kind = "sleep"
                    /\ events[i - 1].dur = interval_wait
                    /\ events[i].at = events[i - 1].at + interval_wait
              /\ \A i, j \in ClickIndexes(events) :
                    i < j => events[j].at - events[i].at >= interval_wait

\* A call of run or repeat: for every count n >= 1 and wait w >= 0, run performs exactly n
\* click events; when w > 0 each click directly follows a wait of w, so
\* clicks are at least w apart; repeat(0) fails and leaves the count as it was.
C8_ClickStep ==
    /\ C8_RunDone'
    /\ (client = "IOClick" /\ clickCall'.op = "repeat" /\ clickCall'.arg = 0) =>
          /\ clickCall'.outcome = "raise"
          /\ clicks' = clicks

\* C8 amended: run performs exactly n clicks for n >= 1 and w >= 0, each
\* directly after a wait of w when w > 0; repeat(0) fails, count unchanged.
C8_PositiveCountClicks == [][C8_ClickStep]_vars

\* three clicks, each after a wait
C8_Witness ==
    /\ clickCall.op = "run"
    /\ clicks = 3
    /\ interval_wait > 0
    /\ NumClicks(events) = 3

\* The returned values: is_existing and the non-polling run return (True, box) when the image
\* is on screen and (False, None) when it is not; wait_for returns False when
\* the wait timed out and True otherwise; exists returns False when nothing
\* matches.
C9_NotFoundIsAValue ==
    /\ (client = "IOImage"
          /\ (imCall.op = "is_existing" \/ (imCall.op = "run" /\ ~imCall.polled))) =>
          /\ imCall.found = imCall.present
          /\ imCall.box = IF imCall.present THEN imCall.shown ELSE NoBox
    /\ (client = "Web" /\ webCall.op = "wait_for" /\ webCall.by \in By) =>
          /\ webCall.outcome = "return"
          /\ webCall.value = IF webCall.env[1] THEN "False" ELSE "True"
    /\ (client = "Web" /\ webCall.op = "exists" /\ webCall.by \in By
          /\ webCall.env[1] = 0) =>
          /\ webCall.outcome = "return"
          /\ webCall.value = "False"

\* ... and each of the two image calls queries the screen exactly once
C9_OneQueryStep ==
    (client = "IOImage" /\ im_pc = "config" /\ imCall' # imCall
        /\ imCall'.op \in {"is_existing", "run"} /\ ~imCall'.polled) =>
        queries' = queries + 1

\* C9: not-found is returned, never raised: is_existing and the non-polling
\* run query once and return (False, None) or (True, box); wait_for returns
\* False on a timeout, else True; exists returns False when nothing matches.
C9_NotFoundReturned == []C9_NotFoundIsAValue /\ [][C9_OneQueryStep]_vars

\* the non-polling run answered (False, None) for an absent image
C9_Witness ==
    /\ imCall.op = "run"
    /\ ~imCall.polled
    /\ ~imCall.present
    /\ ~imCall.found
    /\ imCall.box = NoBox
    /\ queries = 1

\* C10: every screen query searches with the tolerance configured when it is
\* made (0 when never configured).
C10_QueryUsesTolerance ==
    (client = "IOImage" /\ queries > 0) =>
        QueryTolerance(lastQuery) = lastQuery.configured
====
